---- MODULE Spec2Model ----
(***************************************************************************)
(* Model of the frame-extraction and depth-reconstruction scripts:         *)
(*   src/data_extraction_ffmpeg.py  (global frame counter, organize_data,  *)
(*                                   extract_frames_ffmpeg)                *)
(*   src/analyze_depth.py           (load_camera_intrinsics,               *)
(*                                   preprocess_depth_image,               *)
(*                                   depth_to_point_cloud)                 *)
(***************************************************************************)
EXTENDS Integers, Sequences, FiniteSets, TLC

(***************************************************************************)
(* Bounds of the model.                                                    *)
(***************************************************************************)
\* most frames one decoder invocation writes (temp_0001 .. temp_000n)
MaxFrames == 2
\* a batch is started only while the persisted counter is at most this
MaxCounter == 2

\* the two runs of organize_data; "a" alone runs the serialized batches
Procs == {"a", "b"}
Streams == {"rgb", "depth"}

Max(a, b) == IF a >= b THEN a ELSE b
SetMax(S) == IF S = {} THEN -1 ELSE CHOOSE x \in S : \A y \in S : y <= x

VARIABLES
    counterFile,   \* GLOBAL_COUNTER_FILE: [kind, val]
    temp,          \* temp[p][s]: the temp_frames directory of p's output folder
    frames,        \* frames[p][s]: frame_%08d.png indices the current batch placed
    calibCopied,   \* calibCopied[p]: calibration/calibration_params.txt exists
    info,          \* info[p]: frame_info.txt written by the current batch
    pc,            \* position of each run inside organize_data
    next_frame,    \* local next_frame of organize_data
    start_frame,   \* local start_frame of organize_data
    num_frames,    \* local num_frames of organize_data
    g,             \* per-run record of what the run did (history)
    hi,            \* hi[s]: highest index earlier batches gave to stream s
    reusedDir,     \* some batch so far wrote into an earlier batch's folder
    cin,           \* how the calibration text was written (per key)
    content,       \* the calibration text, a sequence of characters
    cres,          \* what load_camera_intrinsics returned or raised
    cpc,           \* "in" before the call, "out" after it
    dimg,          \* the depth raster cv2.imread returned
    dprm,          \* depth_scale, min_depth, max_depth, calibration text
    dout,          \* the list points of depth_to_point_cloud, or raised
    dpc            \* "in" before the call, "out" after it

batchVars == <<counterFile, temp, frames, calibCopied, info, pc, next_frame,
               start_frame, num_frames, g, hi, reusedDir>>
calibVars == <<cin, content, cres, cpc>>
depthVars == <<dimg, dprm, dout, dpc>>

vars == <<batchVars, calibVars, depthVars>>

(***************************************************************************)
(* The persisted counter (data_extraction_ffmpeg.py lines 11-25).          *)
(* kind "absent": no file; "valid": {"next_frame": val}; "garbage": not    *)
(* JSON at all; "nofield": a JSON object without the key next_frame.       *)
(***************************************************************************)
Absent == [kind |-> "absent", val |-> 0]
Valid(n) == [kind |-> "valid", val |-> n]
Garbage == [kind |-> "garbage", val |-> 0]
NoField == [kind |-> "nofield", val |-> 0]

\* json.load raises on text that is not JSON; dict.get defaults to 0
get_next_frame_number(f) ==
    IF f.kind = "absent" THEN [raised |-> FALSE, value |-> 0]
    ELSE IF f.kind = "garbage" THEN [raised |-> TRUE, value |-> 0]
    ELSE IF f.kind = "nofield" THEN [raised |-> FALSE, value |-> 0]
    ELSE [raised |-> FALSE, value |-> f.val]

save_next_frame_number(n) == Valid(n)

(***************************************************************************)
(* extract_frames_ffmpeg (lines 27-98).  t is the temp_frames directory of *)
(* save_folder before the call, ok the decoder's exit status, n the number *)
(* of temp files the decoder wrote before it exited.                       *)
(***************************************************************************)
NoTemp == [dir |-> FALSE, files |-> {}]

\* ffmpeg -y writes temp_0001 .. temp_000n over whatever is there
Decoded(t, n) == [dir |-> TRUE, files |-> t.files \cup (1 .. n)]

\* a variant that numbers the frames a failed decoder left behind
extract_frames_ffmpeg_partial(videoExists, t, start, ok, n) ==
    LET d == Decoded(t, n)
        num == Cardinality(d.files)
    IN [tuple |-> TRUE, start |-> start, num |-> num,
        placed |-> start .. (start + num - 1), temp |-> NoTemp,
        stale |-> Cardinality(t.files \ (1 .. n))]

extract_frames_ffmpeg(videoExists, t, start, ok, n) ==
    IF ~videoExists
    THEN [tuple |-> FALSE, start |-> start, num |-> 0, placed |-> {},
          temp |-> t, stale |-> 0]
    ELSE LET d == Decoded(t, n)
             num == Cardinality(d.files)
         IN IF ok
            THEN [tuple |-> TRUE, start |-> start, num |-> num,
                  placed |-> start .. (start + num - 1),
                  temp |-> NoTemp,
                  stale |-> Cardinality(t.files \ (1 .. n))]
            ELSE [tuple |-> TRUE, start |-> start, num |-> 0, placed |-> {},
                  temp |-> d, stale |-> 0]

(***************************************************************************)
(* organize_data (lines 100-164), one action per blocking call.            *)
(***************************************************************************)
InFlight == {"rgb", "depth", "calib", "commit", "info"}
Returned == {"idle", "done", "crashed"}

NoInfo == [written |-> FALSE, first |-> 0, last |-> 0, total |-> 0]

G0 == [reads |-> 0, readKind |-> "absent", writes |-> 0, readN |-> 0,
       written |-> 0,
       rgbCalled |-> FALSE, rgbOk |-> FALSE, rgbDecoded |-> 0, rgbStale |-> 0,
       depthCalled |-> FALSE, depthOk |-> FALSE, depthDecoded |-> 0,
       depthStale |-> 0, depthStart |-> 0, calibSeen |-> FALSE,
       pend |-> {}]

\* a variant that forgets the frames of the batch
NextAfterRGB_keep(start, num) == start

\* line 133: next_frame = start_frame + num_frames
NextAfterRGB(start, num) == start + num

\* a variant that hands the updated next_frame to the Depth extraction
DepthStartArg_next(p) == next_frame[p]

\* line 141: start_frame=start_frame
DepthStartArg(p) == start_frame[p]

\* a variant that writes the frame count instead of the next index
CommitValue_count(p) == num_frames[p]

\* line 155: save_next_frame_number(next_frame)
CommitValue(p) == next_frame[p]

\* lines 100-121: directory check, output folders, read of the counter.
\* fresh: output_directory is a new folder; otherwise the folder of the
\* previous batch of this run is used again.
Start(p) ==
    /\ pc[p] \in Returned
    /\ UNCHANGED <<calibVars, depthVars>>
    /\ counterFile.kind = "valid" => counterFile.val <= MaxCounter
    /\ \E mainExists \in BOOLEAN, fresh \in BOOLEAN :
         LET r == get_next_frame_number(counterFile)
             others == {q \in Procs \ {p} : pc[q] \in InFlight}
             reading == mainExists /\ ~r.raised
         IN /\ mainExists \/ ~fresh
            /\ hi' = [s \in Streams |-> Max(hi[s], SetMax(frames[p][s]))]
            /\ frames' = [frames EXCEPT ![p] = [s \in Streams |-> {}]]
            /\ info' = [info EXCEPT ![p] = NoInfo]
            /\ temp' = IF fresh
                       THEN [temp EXCEPT ![p] = [s \in Streams |-> NoTemp]]
                       ELSE temp
            /\ calibCopied' = IF fresh
                              THEN [calibCopied EXCEPT ![p] = FALSE]
                              ELSE calibCopied
            /\ pc' = [pc EXCEPT ![p] = IF ~mainExists THEN "done"
                                       ELSE IF r.raised THEN "crashed"
                                       ELSE "rgb"]
            /\ next_frame' = [next_frame EXCEPT ![p] =
                                 IF reading THEN r.value ELSE 0]
            /\ start_frame' = [start_frame EXCEPT ![p] = 0]
            /\ num_frames' = [num_frames EXCEPT ![p] = 0]
            /\ g' = [g EXCEPT ![p] =
                       [G0 EXCEPT !.reads = IF mainExists THEN 1 ELSE 0,
                                  !.readKind = IF mainExists
                                               THEN counterFile.kind
                                               ELSE "absent",
                                  !.readN = IF reading THEN r.value ELSE 0,
                                  !.pend = IF reading
                                           THEN {q \in others :
                                                   g[q].writes = 0}
                                           ELSE {}]]
            /\ reusedDir' = (reusedDir \/ (mainExists /\ ~fresh
                                               /\ pc[p] # "idle"))
            /\ UNCHANGED counterFile

\* lines 128-136: RGB frames first, to learn the frame count
ExtractRGB(p) ==
    /\ pc[p] = "rgb"
    /\ UNCHANGED <<calibVars, depthVars>>
    /\ \E present \in BOOLEAN, ok \in BOOLEAN, n \in 0 .. MaxFrames :
         LET r == extract_frames_ffmpeg(TRUE, temp[p]["rgb"], next_frame[p],
                                        ok, n)
         IN IF present
            THEN /\ start_frame' = [start_frame EXCEPT ![p] = r.start]
                 /\ num_frames' = [num_frames EXCEPT ![p] = r.num]
                 /\ next_frame' = [next_frame EXCEPT ![p] =
                                      NextAfterRGB(r.start, r.num)]
                 /\ temp' = [temp EXCEPT ![p]["rgb"] = r.temp]
                 /\ frames' = [frames EXCEPT ![p]["rgb"] = r.placed]
                 /\ g' = [g EXCEPT ![p].rgbCalled = TRUE, ![p].rgbOk = ok,
                                   ![p].rgbDecoded = n,
                                   ![p].rgbStale = r.stale]
            ELSE /\ ok /\ n = 0
                 /\ start_frame' = [start_frame EXCEPT ![p] = next_frame[p]]
                 /\ num_frames' = [num_frames EXCEPT ![p] = 0]
                 /\ UNCHANGED <<next_frame, temp, frames, g>>
    /\ pc' = [pc EXCEPT ![p] = "depth"]
    /\ UNCHANGED <<counterFile, calibCopied, info, hi, reusedDir>>

\* lines 138-144: Depth frames, numbered from the same start_frame
ExtractDepth(p) ==
    /\ pc[p] = "depth"
    /\ UNCHANGED <<calibVars, depthVars>>
    /\ \E present \in BOOLEAN, ok \in BOOLEAN, n \in 0 .. MaxFrames :
         LET r == extract_frames_ffmpeg(TRUE, temp[p]["depth"],
                                        DepthStartArg(p), ok, n)
         IN IF present
            THEN /\ temp' = [temp EXCEPT ![p]["depth"] = r.temp]
                 /\ frames' = [frames EXCEPT ![p]["depth"] = r.placed]
                 /\ g' = [g EXCEPT ![p].depthCalled = TRUE,
                                   ![p].depthOk = ok,
                                   ![p].depthDecoded = n,
                                   ![p].depthStale = r.stale,
                                   ![p].depthStart = r.start]
            ELSE /\ ok /\ n = 0
                 /\ UNCHANGED <<temp, frames, g>>
    /\ pc' = [pc EXCEPT ![p] = "calib"]
    /\ UNCHANGED <<counterFile, calibCopied, info, next_frame, start_frame,
                   num_frames, hi, reusedDir>>

\* lines 146-152: copy of the calibration file
CopyCalibration(p) ==
    /\ pc[p] = "calib"
    /\ UNCHANGED <<calibVars, depthVars>>
    /\ \E present \in BOOLEAN :
         calibCopied' = [calibCopied EXCEPT ![p] = @ \/ present]
    /\ g' = [g EXCEPT ![p].calibSeen = TRUE]
    /\ pc' = [pc EXCEPT ![p] = "commit"]
    /\ UNCHANGED <<counterFile, temp, frames, info, next_frame, start_frame,
                   num_frames, hi, reusedDir>>

\* line 155: the counter is written back
Commit(p) ==
    /\ pc[p] = "commit"
    /\ UNCHANGED <<calibVars, depthVars>>
    /\ counterFile' = save_next_frame_number(CommitValue(p))
    /\ g' = [g EXCEPT ![p].writes = @ + 1, ![p].written = CommitValue(p)]
    /\ pc' = [pc EXCEPT ![p] = "info"]
    /\ UNCHANGED <<temp, frames, calibCopied, info, next_frame, start_frame,
                   num_frames, hi, reusedDir>>

\* lines 158-164: frame_info.txt
WriteInfo(p) ==
    /\ pc[p] = "info"
    /\ UNCHANGED <<calibVars, depthVars>>
    /\ info' = [info EXCEPT ![p] = [written |-> TRUE,
                                    first |-> start_frame[p],
                                    last |-> next_frame[p] - 1,
                                    total |-> num_frames[p]]]
    /\ pc' = [pc EXCEPT ![p] = "done"]
    /\ UNCHANGED <<counterFile, temp, frames, calibCopied, next_frame,
                   start_frame, num_frames, g, hi, reusedDir>>

\* a run that is started once only (two runs side by side); the runs are
\* alike, and "a" names the one that reads the counter first
StartOnce(p) ==
    /\ pc[p] = "idle"
    /\ p = "a" \/ pc["a"] # "idle"
    /\ Start(p)

InitBatch ==
    /\ counterFile \in {Absent, Garbage, NoField}
                         \cup {Valid(n) : n \in 0 .. MaxCounter}
    /\ temp = [p \in Procs |-> [s \in Streams |-> NoTemp]]
    /\ frames = [p \in Procs |-> [s \in Streams |-> {}]]
    /\ calibCopied = [p \in Procs |-> FALSE]
    /\ info = [p \in Procs |-> NoInfo]
    /\ pc = [p \in Procs |-> "idle"]
    /\ next_frame = [p \in Procs |-> 0]
    /\ start_frame = [p \in Procs |-> 0]
    /\ num_frames = [p \in Procs |-> 0]
    /\ g = [p \in Procs |-> G0]
    /\ hi = [s \in Streams |-> -1]
    /\ reusedDir = FALSE

(***************************************************************************)
(* load_camera_intrinsics (analyze_depth.py lines 6-50).  The text is a    *)
(* sequence of characters; numbers are kept in thousandths (1.5 is 1500).  *)
(***************************************************************************)
Digits == {"0", "1", "2", "3", "4", "5", "6", "7", "8", "9"}
DigitVal == [c \in Digits |->
               CASE c = "0" -> 0 [] c = "1" -> 1 [] c = "2" -> 2
                 [] c = "3" -> 3 [] c = "4" -> 4 [] c = "5" -> 5
                 [] c = "6" -> 6 [] c = "7" -> 7 [] c = "8" -> 8
                 [] c = "9" -> 9]
\* the class [\d.] and the class \s of the patterns
DigitDot == Digits \cup {"."}
Space == {" ", "\n", "\t"}

Keys == <<"fx", "fy", "cx", "cy">>
KeyChars(k) == CASE k = "fx" -> <<"f", "x">> [] k = "fy" -> <<"f", "y">>
                 [] k = "cx" -> <<"c", "x">> [] k = "cy" -> <<"c", "y">>

\* first index from j on whose character is outside Class (Len + 1 if none)
RunEnd(text, j, Class) ==
    CHOOSE k \in j .. Len(text) + 1 :
        /\ \A m \in j .. k - 1 : text[m] \in Class
        /\ k = Len(text) + 1 \/ text[k] \notin Class

NoMatch == [ok |-> FALSE, group |-> <<>>]

\* line 26: rf"{param_name}:\s*([\d.]+)" tried at position i
ExactAt(text, k, i) ==
    LET pre == KeyChars(k) \o <<":">>
        n == Len(pre)
    IN IF i + n - 1 > Len(text) \/ SubSeq(text, i, i + n - 1) # pre
       THEN NoMatch
       ELSE LET a == RunEnd(text, i + n, Space)
                b == RunEnd(text, a, DigitDot)
            IN IF b > a THEN [ok |-> TRUE, group |-> SubSeq(text, a, b - 1)]
               ELSE NoMatch

\* line 31: rf"{param_name}:\s*([\d.]+)\s*[,\n]" tried at position i
CommaAt(text, k, i) ==
    LET pre == KeyChars(k) \o <<":">>
        n == Len(pre)
    IN IF i + n - 1 > Len(text) \/ SubSeq(text, i, i + n - 1) # pre
       THEN NoMatch
       ELSE LET a == RunEnd(text, i + n, Space)
                b == RunEnd(text, a, DigitDot)
                w == RunEnd(text, b, Space)
            IN IF /\ b > a
                  /\ \/ (w <= Len(text) /\ text[w] = ",")
                     \/ \E m \in b .. w - 1 : text[m] = "\n"
               THEN [ok |-> TRUE, group |-> SubSeq(text, a, b - 1)]
               ELSE NoMatch

\* re.search takes the leftmost position at which the pattern matches
Leftmost(M) == CHOOSE i \in M : \A j \in M : i <= j

\* line 26: re.search of the first pattern
exact_match(text, k) ==
    LET M == {i \in 1 .. Len(text) : ExactAt(text, k, i).ok}
    IN IF M = {} THEN NoMatch ELSE ExactAt(text, k, Leftmost(M))

\* line 31: re.search of the second pattern
comma_match(text, k) ==
    LET M == {i \in 1 .. Len(text) : CommaAt(text, k, i).ok}
    IN IF M = {} THEN NoMatch ELSE CommaAt(text, k, Leftmost(M))

RECURSIVE DecVal(_)
DecVal(ds) == IF ds = <<>> THEN 0
              ELSE DecVal(SubSeq(ds, 1, Len(ds) - 1)) * 10
                   + DigitVal[ds[Len(ds)]]

\* the first three fraction digits, in thousandths
FracMilli(ds) ==
    LET d(i) == IF i <= Len(ds) THEN DigitVal[ds[i]] ELSE 0
    IN d(1) * 100 + d(2) * 10 + d(3)

\* float() of a string of digits and dots: one dot at most, one digit at least
PyFloat(cs) ==
    LET dots == {i \in 1 .. Len(cs) : cs[i] = "."}
    IN IF Cardinality(dots) > 1 \/ Cardinality(dots) = Len(cs)
       THEN [ok |-> FALSE, val |-> 0]
       ELSE IF dots = {}
       THEN [ok |-> TRUE, val |-> DecVal(cs) * 1000]
       ELSE LET d == CHOOSE i \in dots : TRUE
            IN [ok |-> TRUE,
                val |-> DecVal(SubSeq(cs, 1, d - 1)) * 1000
                        + FracMilli(SubSeq(cs, d + 1, Len(cs)))]

\* lines 24-35: kind "none" is Python's None, "raised" a ValueError of float
extract_param(text, k) ==
    LET e == exact_match(text, k)
        c == comma_match(text, k)
        m == IF e.ok THEN e ELSE c
    IN IF ~m.ok THEN [kind |-> "none", val |-> 0]
       ELSE IF PyFloat(m.group).ok
       THEN [kind |-> "float", val |-> PyFloat(m.group).val]
       ELSE [kind |-> "raised", val |-> 0]

\* a variant that only rules out a failed float()
Truthy_lax(x) == x.kind # "raised"

\* line 43: all([fx, fy, cx, cy]); None and 0.0 are false
Truthy(x) == x.kind = "float" /\ x.val # 0

\* line 46: return fx, fy, cx, cy
Intrinsics(fx, fy, cx, cy) == <<fx.val, fy.val, cx.val, cy.val>>

Raised == [raised |-> TRUE, value |-> <<>>]

\* lines 16-50; file is [exists, text]
load_camera_intrinsics(file) ==
    IF ~file.exists THEN Raised
    ELSE LET fx == extract_param(file.text, "fx")
             fy == extract_param(file.text, "fy")
             cx == extract_param(file.text, "cx")
             cy == extract_param(file.text, "cy")
         IN IF \E x \in {fx, fy, cx, cy} : x.kind = "raised" THEN Raised
            ELSE IF ~(Truthy(fx) /\ Truthy(fy) /\ Truthy(cx) /\ Truthy(cy))
            THEN Raised
            ELSE [raised |-> FALSE, value |-> Intrinsics(fx, fy, cx, cy)]

(***************************************************************************)
(* Calibration texts the parser is run on.  Each key is either left out or *)
(* written as key, colon, optional blank, numeral; the fields share lines  *)
(* in pairs separated by commas, or stand one per line.                    *)
(***************************************************************************)
\* numeral as written, its value in thousandths, whether it is a decimal
\* number and whether it is positive
Numerals ==
    { [txt |-> <<"2">>, val |-> 2000, decimal |-> TRUE, positive |-> TRUE],
      [txt |-> <<"1", ".", "5">>, val |-> 1500, decimal |-> TRUE,
       positive |-> TRUE],
      [txt |-> <<"0">>, val |-> 0, decimal |-> TRUE, positive |-> FALSE],
      [txt |-> <<"1", ".", "5", ".">>, val |-> 0, decimal |-> FALSE,
       positive |-> FALSE],
      [txt |-> <<"-", "2">>, val |-> 0, decimal |-> FALSE,
       positive |-> FALSE] }
Left == [txt |-> <<>>, val |-> 0, decimal |-> FALSE, positive |-> FALSE]
Written(o) == o # Left

KeyOrders == {<<1, 2, 3, 4>>, <<4, 3, 2, 1>>}

RECURSIVE Render(_, _)
\* the text of the fields order[i ..], as the choices c write them
Render(c, i) ==
    IF i > 4 THEN <<>>
    ELSE LET k == Keys[c.order[i]]
             o == c.num[k]
             sep == IF c.layout = "pairs" /\ i \in {1, 3}
                    THEN <<",", " ">> ELSE <<"\n">>
         IN (IF Written(o)
             THEN KeyChars(k) \o <<":">> \o c.blank \o o.txt \o sep
             ELSE <<>>) \o Render(c, i + 1)

CalibChoices ==
    [layout : {"pairs", "lines"}, blank : {<<>>, <<" ">>},
     order : KeyOrders,
     num : [{"fx", "fy", "cx", "cy"} -> Numerals \cup {Left}]]

NoResult == [raised |-> FALSE, value |-> <<>>]

\* the file is missing only in the case where no key was to be written
InitCalib ==
    /\ cin \in CalibChoices
    /\ content \in {[exists |-> TRUE, text |-> Render(cin, 1)]}
                   \cup {[exists |-> FALSE, text |-> <<>>] :
                           x \in {k \in {1} : \A key \in DOMAIN cin.num :
                                                 ~Written(cin.num[key])}}
    /\ cres = NoResult
    /\ cpc = "in"

IdleCalib ==
    /\ cin = [layout |-> "lines", blank |-> <<>>, order |-> <<1, 2, 3, 4>>,
              num |-> [k \in {"fx", "fy", "cx", "cy"} |-> Left]]
    /\ content = [exists |-> FALSE, text |-> <<>>]
    /\ cres = NoResult
    /\ cpc = "in"

LoadIntrinsics ==
    /\ cpc = "in"
    /\ UNCHANGED <<batchVars, depthVars>>
    /\ cres' = load_camera_intrinsics(content)
    /\ cpc' = "out"
    /\ UNCHANGED <<cin, content>>

(***************************************************************************)
(* preprocess_depth_image and depth_to_point_cloud (analyze_depth.py       *)
(* lines 52-126).  depth_scale, min_depth, max_depth and the coordinates   *)
(* are kept in thousandths; X and Y are kept as exact fractions.           *)
(***************************************************************************)
\* rows and columns of the depth raster
ImgH == 2
ImgW == 2

\* line 68: depth_image < 10000
SanityCeiling == 10000
\* line 74: ksize of cv2.medianBlur
MedianK == 3
\* line 74: astype(np.uint16)
UInt16 == 65536

Pixels(img) == (0 .. img.h - 1) \X (0 .. img.w - 1)

\* lines 63-64: a raster with channels is cut down to channel 0
Channel0(img) == [q \in Pixels(img) |-> img.px[q][1]]

\* lines 67-71: np.where((d > 0) & (d < 10000), d, 0)
Sanity(d) == IF d > 0 /\ d < SanityCeiling THEN d ELSE 0

Clamp(x, lo, hi2) == IF x < lo THEN lo ELSE IF x > hi2 THEN hi2 ELSE x

\* the middle value of the k*k window around q; cv2.medianBlur replicates
\* the border pixels
MedianAt(grid, h, w, q) ==
    LET r == (MedianK - 1) \div 2
        W == (-r .. r) \X (-r .. r)
        at(o) == grid[<<Clamp(q[1] + o[1], 0, h - 1),
                        Clamp(q[2] + o[2], 0, w - 1)>>]
        half == (MedianK * MedianK - 1) \div 2
    IN CHOOSE m \in {at(o) : o \in W} :
          /\ Cardinality({o \in W : at(o) < m}) <= half
          /\ Cardinality({o \in W : at(o) <= m}) >= half + 1

\* lines 62-76
preprocess_depth_image(img) ==
    LET c0 == Channel0(img)
        z == [q \in Pixels(img) |-> Sanity(c0[q]) % UInt16]
    IN [q \in Pixels(img) |-> MedianAt(z, img.h, img.w, q)]

\* a variant with a closed window
InWindow_closed(Z, min_depth, max_depth) == min_depth <= Z /\ Z <= max_depth

\* line 120: min_depth < Z < max_depth
InWindow(Z, min_depth, max_depth) == min_depth < Z /\ Z < max_depth

\* lines 121-123: X = (u - cx) * Z / fx, Y = (v - cy) * Z / fy, as fractions
\* of thousandths; intr is (fx, fy, cx, cy) in thousandths
BackProject(u, v, Z, intr) ==
    [X |-> [n |-> (u * 1000 - intr[3]) * Z, d |-> intr[1]],
     Y |-> [n |-> (v * 1000 - intr[4]) * Z, d |-> intr[2]],
     Z |-> Z]

RECURSIVE Loop(_, _, _, _)
\* lines 115-123: pixels k .., row by row; each point with its pixel
Loop(depth, img, prm, k) ==
    IF k >= img.h * img.w THEN <<>>
    ELSE LET v == k \div img.w
             u == k % img.w
             Z == depth[<<v, u>>] * prm.depth_scale
         IN (IF InWindow(Z, prm.min_depth, prm.max_depth)
             THEN <<[pt |-> BackProject(u, v, Z, prm.intr),
                     src |-> <<v, u>>]>>
             ELSE <<>>) \o Loop(depth, img, prm, k + 1)

NoPoints == [raised |-> FALSE, points |-> <<>>, src |-> <<>>]
RaisedPoints == [raised |-> TRUE, points |-> <<>>, src |-> <<>>]

\* the element of a one-element set (binds a value that is used many times)
Only(S) == CHOOSE x \in S : TRUE

\* lines 111-126: the list points handed to Open3D; src is the pixel each
\* point was appended for
Reconstruct(depth, img, prm, intr) ==
    Only({ [raised |-> FALSE,
            points |-> [i \in 1 .. Len(r) |-> r[i].pt],
            src |-> [i \in 1 .. Len(r) |-> r[i].src]] :
           r \in {Loop(depth, img, [prm EXCEPT !.intr = intr], 0)} })

\* lines 100-126: intrinsics, imread, preprocessing, the pixel loop
depth_to_point_cloud(img, prm) ==
    Only({ IF c.raised \/ ~img.readable THEN RaisedPoints
           ELSE Only({ Reconstruct(depth, img, prm, c.value) :
                       depth \in {preprocess_depth_image(img)} }) :
           c \in {load_camera_intrinsics(prm.file)} })

(***************************************************************************)
(* Rasters and parameters the reconstruction is run on.                    *)
(***************************************************************************)
\* raw samples of a raster, with depth_scale, min_depth, max_depth
Scenarios ==
    { [samples |-> {0, 100}, depth_scale |-> 1,
       min_depth |-> 100, max_depth |-> 5000],
      [samples |-> {0, 101}, depth_scale |-> 1,
       min_depth |-> 100, max_depth |-> 5000],
      [samples |-> {101, 5000}, depth_scale |-> 1,
       min_depth |-> 100, max_depth |-> 5000],
      [samples |-> {100, 4999}, depth_scale |-> 1,
       min_depth |-> 0, max_depth |-> 10000],
      [samples |-> {9999, 10000}, depth_scale |-> 1,
       min_depth |-> 100, max_depth |-> 10000],
      [samples |-> {0, 65535}, depth_scale |-> 1,
       min_depth |-> 0, max_depth |-> 10000],
      [samples |-> {50, 2500}, depth_scale |-> 2,
       min_depth |-> 100, max_depth |-> 5000],
      [samples |-> {0, 2499}, depth_scale |-> 2,
       min_depth |-> 100, max_depth |-> 5000] }

Choice(a, b, c, d) ==
    [layout |-> "pairs", blank |-> <<" ">>, order |-> <<1, 2, 3, 4>>,
     num |-> [k \in {"fx", "fy", "cx", "cy"} |->
                CASE k = "fx" -> a [] k = "fy" -> b
                  [] k = "cx" -> c [] k = "cy" -> d]]
Two == CHOOSE o \in Numerals : o.txt = <<"2">>
OneHalf == CHOOSE o \in Numerals : o.txt = <<"1", ".", "5">>
GoodFile ==
    [exists |-> TRUE, text |-> Render(Choice(Two, OneHalf, OneHalf, Two), 1)]
\* a calibration text without cy
BadFile ==
    [exists |-> TRUE, text |-> Render(Choice(Two, OneHalf, OneHalf, Left), 1)]

\* rasters of one channel, and of three with other samples in the rest
Rasters(samples) ==
    { [readable |-> TRUE, h |-> ImgH, w |-> ImgW, ch |-> ch,
       px |-> [q \in DOMAIN f |->
                 IF ch = 1 THEN <<f[q]>> ELSE <<f[q], 7, 7>>]] :
        ch \in {1, 3},
        f \in [(0 .. ImgH - 1) \X (0 .. ImgW - 1) -> samples] }

Unreadable == [readable |-> FALSE, h |-> 0, w |-> 0, ch |-> 1, px |-> <<>>]

Params(sc, file) ==
    [depth_scale |-> sc.depth_scale, min_depth |-> sc.min_depth,
     max_depth |-> sc.max_depth, file |-> file, intr |-> <<>>]

\* every raster with a good calibration file; one raster with a file the
\* parser rejects; a raster cv2.imread could not load
InitDepth ==
    /\ \E sc \in Scenarios :
         \/ dimg \in Rasters(sc.samples) /\ dprm = Params(sc, GoodFile)
         \/ /\ dimg \in {r \in Rasters(sc.samples) :
                           \A q \in DOMAIN r.px : r.px[q][1] # 0}
            /\ dprm = Params(sc, BadFile)
         \/ dimg = Unreadable /\ dprm = Params(sc, GoodFile)
    /\ dout = NoPoints
    /\ dpc = "in"

IdleDepth ==
    /\ dimg = Unreadable
    /\ dprm = [depth_scale |-> 1, min_depth |-> 100, max_depth |-> 10000,
               file |-> [exists |-> FALSE, text |-> <<>>], intr |-> <<>>]
    /\ dout = NoPoints
    /\ dpc = "in"

DepthToPointCloud ==
    /\ dpc = "in"
    /\ UNCHANGED <<batchVars, calibVars>>
    /\ dout' = depth_to_point_cloud(dimg, dprm)
    /\ dpc' = "out"
    /\ UNCHANGED <<dimg, dprm>>

(***************************************************************************)
(* Specifications.                                                         *)
(***************************************************************************)
IdleBatch ==
    /\ InitBatch
    /\ counterFile = Absent

\* batches run one at a time: run "a" is started again after it returned
Init == InitBatch /\ IdleCalib /\ IdleDepth

Next ==
    \/ Start("a")
    \/ ExtractRGB("a")
    \/ ExtractDepth("a")
    \/ CopyCalibration("a")
    \/ Commit("a")
    \/ WriteInfo("a")

Spec == Init /\ [][Next]_vars

\* two runs against the same counter file, interleaved at their calls
NextConc ==
    \E p \in Procs :
        \/ StartOnce(p)
        \/ ExtractRGB(p)
        \/ ExtractDepth(p)
        \/ CopyCalibration(p)
        \/ Commit(p)
        \/ WriteInfo(p)

SpecConc == Init /\ [][NextConc]_vars

\* load_camera_intrinsics on every calibration text
InitC == IdleBatch /\ InitCalib /\ IdleDepth

NextC == LoadIntrinsics

SpecCalib == InitC /\ [][NextC]_vars

\* depth_to_point_cloud on every raster
InitD == IdleBatch /\ IdleCalib /\ InitDepth

NextD == DepthToPointCloud

SpecDepth == InitD /\ [][NextD]_vars

(***************************************************************************)
(* Properties of the batch extraction.                                     *)
(***************************************************************************)
\* the value a readable counter holds: 0 when the file is absent
Readable(f) == f.kind \in {"absent", "valid"}
FileValue(f) == IF f.kind = "valid" THEN f.val ELSE 0

\* the RGB frames the run numbered in this batch
K(p) == Cardinality(frames[p]["rgb"])

\* C1: a run that read N from a readable counter and whose RGB extraction
\* numbered k frames writes exactly N + k, the RGB frames are numbered from
\* N, and the Depth extraction of the run is started with start_frame = N.
C1_CommitIsStartPlusCount ==
    \A p \in Procs :
        /\ (pc[p] \in {"rgb", "depth", "calib", "commit"}
              /\ Readable(counterFile))
             => g[p].readN = FileValue(counterFile)
        /\ frames[p]["rgb"] # {}
             => frames[p]["rgb"] = g[p].readN .. (g[p].readN + K(p) - 1)
        /\ g[p].depthCalled => g[p].depthStart = g[p].readN
        /\ g[p].writes = 1
             => /\ g[p].written = g[p].readN + K(p)
                /\ counterFile = Valid(g[p].readN + K(p))

C1_Witness ==
    /\ pc["a"] = "done"
    /\ g["a"].writes = 1
    /\ g["a"].readN >= 1
    /\ K("a") = MaxFrames
    /\ g["a"].depthCalled
    /\ counterFile = Valid(g["a"].readN + MaxFrames)

\* C2: with every batch in a folder of its own, every index a batch gives
\* to a frame of a stream is greater than every index earlier batches gave
\* to frames of that stream (so no index is given twice).
C2_IndicesGloballyUnique ==
    ~reusedDir =>
        \A s \in Streams : \A i \in frames["a"][s] : i > hi[s]

\* C3: in a batch with both videos present the Depth frames carry exactly
\* the indices of the RGB frames, start_frame .. start_frame + num_frames - 1.
C3_StreamsShareIndices ==
    \A p \in Procs :
        (g[p].rgbCalled /\ g[p].depthCalled)
            => /\ frames[p]["depth"] = frames[p]["rgb"]
               /\ frames[p]["rgb"] =
                     start_frame[p] .. (start_frame[p] + num_frames[p] - 1)

\* C4: the readable counter never decreases; a run reads it at most once
\* and before any extraction, writes it at most once and only after both
\* streams were handled, and writes the value read plus its RGB frames.
C4_Step ==
    /\ (Readable(counterFile) /\ Readable(counterFile'))
          => FileValue(counterFile') >= FileValue(counterFile)
    /\ \A p \in Procs :
          /\ g[p]'.reads <= 1 /\ g[p]'.writes <= 1
          /\ \/ g[p]'.rgbCalled /\ ~g[p].rgbCalled
             \/ g[p]'.depthCalled /\ ~g[p].depthCalled
             \/ frames[p]' # frames[p] /\ pc[p] \notin Returned
                => (g[p].reads = 1 /\ g[p]'.reads = 1 /\ g[p]'.writes = 0)
          /\ g[p]'.writes = g[p].writes + 1
                => /\ pc[p] = "commit"
                   /\ g[p].calibSeen
                   /\ counterFile' = Valid(g[p].readN + K(p))
    /\ counterFile' # counterFile
          => \E p \in Procs : g[p]'.writes = g[p].writes + 1

BothWrote == \A p \in Procs : pc[p] = "done" /\ g[p].writes = 1

C6_LostUpdate ==
    BothWrote =>
        LET N == g["a"].readN
            sum == N + K("a") + K("b")
        IN /\ (\A p \in Procs : g[p].pend = {})
                => FileValue(counterFile) = sum
           /\ (g["b"].pend = {"a"} /\ K("a") >= 1 /\ K("b") >= 1)
                => /\ g["b"].readN = N
                   /\ frames["a"]["rgb"] \cap frames["b"]["rgb"] # {}
                   /\ FileValue(counterFile) < sum

C6_Witness ==
    /\ BothWrote
    /\ g["b"].pend = {"a"}
    /\ K("a") >= 1 /\ K("b") >= 1
    /\ frames["a"]["rgb"] \cap frames["b"]["rgb"] # {}
    /\ FileValue(counterFile) < g["a"].readN + K("a") + K("b")

\* C7: a failed decode of a stream numbers no frame of that stream and
\* returns (start_frame, 0); the run goes on: it does not stop before the
\* calibration copy, the counter write and frame_info.txt, and after a
\* failed RGB decode the value written is the value read.
Failed(p, s) == IF s = "rgb" THEN g[p].rgbCalled /\ ~g[p].rgbOk
                ELSE g[p].depthCalled /\ ~g[p].depthOk

C7_FailedDecodeContinues ==
    \A p \in Procs : \A s \in Streams :
        Failed(p, s) =>
            /\ frames[p][s] = {}
            /\ s = "rgb" => (num_frames[p] = 0 /\ start_frame[p] = g[p].readN
                             /\ next_frame[p] = g[p].readN)
            /\ pc[p] \in {"depth", "calib", "commit", "info", "done"}
            /\ pc[p] = "done"
                 => /\ g[p].calibSeen
                    /\ g[p].writes = 1
                    /\ info[p].written
                    /\ s = "rgb" => g[p].written = g[p].readN

C7_Witness ==
    /\ pc["a"] = "done"
    /\ Failed("a", "rgb")
    /\ g["a"].rgbDecoded >= 1
    /\ g["a"].depthCalled /\ g["a"].depthOk
    /\ frames["a"]["depth"] # {}
    /\ g["a"].readN >= 1
    /\ info["a"].written

\* C8: a run that finds the counter file present but without a readable
\* integer next_frame stops at the read: it numbers no frame and does not
\* write the counter.
C8_CorruptCounterHalts ==
    \A p \in Procs :
        (g[p].reads = 1 /\ g[p].readKind \in {"garbage", "nofield"})
            => /\ pc[p] = "crashed"
               /\ \A s \in Streams : frames[p][s] = {}
               /\ g[p].writes = 0
               /\ counterFile.kind = g[p].readKind

\* C10: a call whose decode succeeds returns the number of frames the
\* decoder wrote in that call, numbers exactly those from start_frame on,
\* and leaves no temp_frames directory.
Called(p, s) == IF s = "rgb" THEN g[p].rgbCalled /\ g[p].rgbOk
                ELSE g[p].depthCalled /\ g[p].depthOk
DecodedNow(p, s) == IF s = "rgb" THEN g[p].rgbDecoded ELSE g[p].depthDecoded
StaleNow(p, s) == IF s = "rgb" THEN g[p].rgbStale ELSE g[p].depthStale

C10_OnlyOwnFrames ==
    \A p \in Procs : \A s \in Streams :
        Called(p, s) =>
            /\ Cardinality(frames[p][s]) = DecodedNow(p, s)
            /\ StaleNow(p, s) = 0
            /\ temp[p][s] = NoTemp

(***************************************************************************)
(* Properties of the calibration parser.                                   *)
(***************************************************************************)
KeySet == {"fx", "fy", "cx", "cy"}

\* C9: a text in which some key is left out or is not followed by a decimal
\* number makes load_camera_intrinsics raise; a result is returned only when
\* all four keys are written with a decimal number; a text in which every
\* key is followed by a positive decimal number yields exactly those four
\* values as (fx, fy, cx, cy).
C9_AllFourOrError ==
    cpc = "out" =>
        LET o == cin.num
            unresolved == \E k \in KeySet : ~Written(o[k]) \/ ~o[k].decimal
            positive == \A k \in KeySet : Written(o[k]) /\ o[k].positive
        IN /\ ~content.exists => cres.raised
           /\ unresolved => (cres.raised /\ cres.value = <<>>)
           /\ ~cres.raised => ~unresolved
           /\ (content.exists /\ positive)
                => /\ ~cres.raised
                   /\ cres.value = <<o["fx"].val, o["fy"].val,
                                     o["cx"].val, o["cy"].val>>

C9_Witness ==
    /\ cpc = "out"
    /\ ~cres.raised
    /\ cin.layout = "pairs"
    /\ cin.order = <<4, 3, 2, 1>>
    /\ cres.value = <<2000, 1500, 1500, 2000>>

(***************************************************************************)
(* Properties of the depth reconstruction.                                 *)
(***************************************************************************)
\* how many points were appended for pixel q
Emitted(q) == Cardinality({i \in 1 .. Len(dout.src) : dout.src[i] = q})

\* the raw samples of the 3x3 window around q, borders replicated
Window(q) ==
    {dimg.px[<<Clamp(q[1] + a, 0, dimg.h - 1),
               Clamp(q[2] + b, 0, dimg.w - 1)>>][1] :
        a \in -1 .. 1, b \in -1 .. 1}

Invalid(d) == d = 0 \/ d >= SanityCeiling

\* a pixel whose preprocessed sample d gives Z = d * depth_scale outside
\* the open window emits no point, also at Z = min_depth and Z = max_depth;
\* one that gives min_depth < Z < max_depth emits exactly one point, with
\* X = (u - cx) * Z / fx and Y = (v - cy) * Z / fy
C5_Core ==
    LET P == preprocess_depth_image(dimg)
        intr == load_camera_intrinsics(dprm.file).value
    IN /\ Len(dout.points) = Len(dout.src)
       /\ \A q \in Pixels(dimg) :
            LET Z == P[q] * dprm.depth_scale
            IN /\ (Z <= dprm.min_depth \/ Z >= dprm.max_depth)
                    => Emitted(q) = 0
               /\ (dprm.min_depth < Z /\ Z < dprm.max_depth)
                    => /\ Emitted(q) = 1
                       /\ \A i \in 1 .. Len(dout.src) :
                            dout.src[i] = q =>
                              LET pt == dout.points[i]
                              IN /\ pt.Z = Z
                                 /\ pt.X.n = (q[2] * 1000 - intr[3]) * Z
                                 /\ pt.X.d = intr[1]
                                 /\ pt.Y.n = (q[1] * 1000 - intr[4]) * Z
                                 /\ pt.Y.d = intr[2]

====
